---- MODULE Spec2Model ----
(***************************************************************************)
(* Model of the AI-RPM-Monitor ingestion pipeline:                         *)
(*   - VitalsConsumer (consumer/kafka_consumer.py): connect, the consume   *)
(*     loop, commit_offset, _decode_message, _handle_kafka_error, stop;    *)
(*   - message_handler.handler and generate_critical_summary               *)
(*     (consumer/app.py): the transactional handler and triage enrichment; *)
(*   - the store (consumer/models.py): the vitals_records and              *)
(*     llm_summaries tables behind one SQLAlchemy session;                 *)
(*   - the broker: one topic partition and the group's committed offset.   *)
(* One consumer process runs consume() on one thread; a second thread may  *)
(* call stop(); the process may crash and be restarted.                    *)
(***************************************************************************)
EXTENDS Integers, Sequences, FiniteSets, TLC

\* ------------------------------------------------------------------ bounds

\* Number of messages in the topic partition.
NumMsgs == 2

\* Number of process crashes followed by a restart.
MaxRestarts == 1

\* Length of the longest list given to classify_batch.
MaxBatch == 2

\* Number of rows in the vitals_records table the alerts query is run on.
MaxRows == 3

\* ------------------------------------------------------------ value spaces

Offsets == 0 .. (NumMsgs - 1)

NoMsg == -1

\* Payloads _decode_message cannot decode.
UndecodablePayloads == {"null_value", "invalid_utf8", "invalid_json"}

\* state_classified tags of well-formed events; "Other" is any other string.
StateTags == {"Normal", "Warning", "Critical", "Other"}

\* A decodable payload is either a well-formed event, named by its
\* state_classified tag, or an event with a missing field or a timestamp
\* that does not parse ("malformed_event").
DecodablePayloads == StateTags \cup {"malformed_event"}

\* What is wrong with a malformed event: the field handler lines 288-303
\* look up and do not find, or a timestamp fromisoformat rejects.
MalformedEvents ==
    {"missing_timestamp", "bad_timestamp", "missing_patient_id",
     "missing_vitals_field", "missing_state_classified"}

\* The patient the events of the partition are about, and the patients a
\* request can name.
EventPatient == "patient-1"
Patients == {"patient-1", "patient-2"}

Payloads == UndecodablePayloads \cup DecodablePayloads

\* Error codes a polled message may carry.
ErrorCodes ==
    {"_PARTITION_EOF", "_ALL_BROKERS_DOWN", "_TRANSPORT", "_TIMED_OUT",
     "UNKNOWN_TOPIC_OR_PART", "_FATAL", "OTHER"}

\* What the reasoning service does during one enrichment.
ServiceBehaviours ==
    {"client_init_fails", "call_raises", "validation_fails", "parsed_missing",
     "valid_response"}

TriageLevels == {"Immediate", "Urgent", "Standard"}

None == "None"

\* llm_summary = None, line 308.
NoSummary == [table |-> "none"]

\* No event is in hand, or the event in hand has no usable vitals.
NoReading == [reading |-> "none"]

VARIABLES
    log,            \* the topic partition: offset -> payload
    committed,      \* the group's committed offset on the broker
    vitals_records, \* table vitals_records: committed rows
    llm_summaries,  \* table llm_summaries: committed rows
    ntx,            \* number of storage transactions committed so far
    session,        \* db.session: rows staged and not yet committed
    consumer,       \* self.consumer: "none", "open" or "closed"
    running,        \* self.running
    position,       \* next offset poll() fetches in this session
    pc,             \* position of the thread running consume()
    msg,            \* offset of the message being processed, or NoMsg
    data,           \* decoded payload of msg: its state_classified tag or its
                    \* defect; None; or "unset"
    event_vitals,   \* data['vitals'] of a well-formed event, or NoReading
    llm_summary,    \* handler local: the enrichment result, or NoSummary
    service,        \* what the reasoning service did in this invocation
    dbCommit,       \* this invocation's db.session.commit(): "not_run", "ok", "failed"
    commitCalled,   \* who called commit_offset for msg: "no", "loop", "handler"
    commitResult,   \* what that call did: "none", "True", "False", "raise"
    success,        \* consume local: "unset", "True", "False"
    msg_error,      \* code of the polled message's error, or "none"
    apiCalled,      \* this invocation called the reasoning service
    stopInFlight,   \* stop() was called while a handler invocation was running
    exc,            \* an exception is propagating out of consume()
    stopPc,         \* position of the thread calling stop()
    restarts,       \* crashes so far
    kept,           \* the message of the commit callback a handler has kept
                    \* from an earlier invocation, or NoMsg
    is_fitted,      \* EdgeClassifier.is_fitted
    model,          \* EdgeClassifier.model: "unfitted" or the fitted forest
    call,           \* the last classifier call: "none", "classify", "classify_batch"
    readings,       \* the readings given to that call
    results,        \* the states it has computed so far
    request,        \* GET /api/alerts/<patient_id>: the request being served
    response        \* and the response to it

vars ==
    <<log, committed, vitals_records, llm_summaries, ntx, session, consumer,
      running, position, pc, msg, data, llm_summary, service, dbCommit,
      commitCalled, commitResult, success, msg_error, apiCalled, stopInFlight,
      exc, stopPc, restarts, is_fitted, model, call, readings, results,
      event_vitals, request, response, kept>>

brokerVars == <<log, committed>>
storeVars == <<vitals_records, llm_summaries, ntx>>
stopVars == <<stopPc, restarts>>
iterVars ==
    <<msg, data, event_vitals, llm_summary, service, dbCommit, commitCalled,
      commitResult, success>>
consumerVars ==
    <<brokerVars, storeVars, session, consumer, running, position, pc, iterVars,
      msg_error, apiCalled, stopInFlight, exc, stopVars, kept>>
classifierVars == <<is_fitted, model, call, readings, results>>
apiVars == <<request, response>>

\* Positions of the handler between its invocation and its return.
HandlerPcs == {"handler", "h_enrich", "h_commit", "h_ack", "h_except"}

\* ----------------------------------------------------------------- Init

\* The consumer process before consume() is called.
ProcessInit ==
    /\ session = <<>>
    /\ consumer = "none"
    /\ running = FALSE
    /\ position = 0
    /\ pc = "consume"
    /\ msg = NoMsg
    /\ data = "unset"
    /\ event_vitals = NoReading
    /\ llm_summary = NoSummary
    /\ service = "no_call"
    /\ dbCommit = "not_run"
    /\ commitCalled = "no"
    /\ commitResult = "none"
    /\ success = "unset"
    /\ msg_error = "none"
    /\ apiCalled = FALSE
    /\ stopInFlight = FALSE
    /\ exc = FALSE
    /\ stopPc = "idle"
    /\ restarts = 0
    /\ kept = NoMsg

\* The broker, the empty store and the consumer process before consume()
\* is called.
ConsumerInit ==
    /\ log \in [Offsets -> Payloads]
    /\ committed = 0
    /\ vitals_records = <<>>
    /\ llm_summaries = <<>>
    /\ ntx = 0
    /\ ProcessInit

\* EdgeClassifier.__init__, lines 51-56: a classifier nobody has called yet.
ClassifierIdle ==
    /\ is_fitted = FALSE
    /\ model = "unfitted"
    /\ call = "none"
    /\ readings = <<>>
    /\ results = <<>>

\* No request is being served.
NoRequest == [patient_id |-> "none"]
NoResponse == [status |-> 0]

ApiIdle ==
    /\ request = NoRequest
    /\ response = NoResponse

Init ==
    /\ ConsumerInit
    /\ ClassifierIdle
    /\ ApiIdle

\* ------------------------------------------------------- EdgeClassifier

\* Vitals are floats; the model counts them in tenths.  NaN is the float
\* that every comparison answers False for.
NaN == 99999

\* VITAL_RANGES, lines 15-19, in tenths.
VITAL_RANGES ==
    [heart_rate |-> [min |-> 600, max |-> 1000,
                     critical_low |-> 400, critical_high |-> 1500],
     spo2 |-> [min |-> 950, max |-> 1000,
               critical_low |-> 880, critical_high |-> 1000],
     temperature |-> [min |-> 361, max |-> 372,
                      critical_low |-> 350, critical_high |-> 395]]

\* Values of each vital on both sides of every threshold.
HeartRates == {400, 401, 600, 750, 1000, 1001, 1500, NaN}
Spo2s == {880, 881, 950, 980, 1000, 1001, NaN}
Temperatures == {350, 351, 361, 366, 372, 373, 395, NaN}

\* VitalReading, lines 24-29.
VitalReading(heart_rate, spo2, temperature) ==
    [heart_rate |-> heart_rate, spo2 |-> spo2, temperature |-> temperature]

VitalReadings ==
    {VitalReading(h, s, t) : h \in HeartRates, s \in Spo2s, t \in Temperatures}

\* The readings lists of classify_batch are made of.
BatchReadings ==
    {VitalReading(750, 980, 366), VitalReading(600, 950, 372),
     VitalReading(1001, 980, 366), VitalReading(750, 880, 366),
     VitalReading(1500, 1001, 373)}

\* Lists of at most n readings.
RECURSIVE ReadingLists(_)
ReadingLists(n) ==
    IF n = 0 THEN {<<>>}
    ELSE LET shorter == ReadingLists(n - 1) IN
         shorter \cup {Append(l, r) : l \in {x \in shorter : Len(x) = n - 1},
                                      r \in BatchReadings}

\* Fitted forests, told apart by how they score the readings inside the
\* normal ranges (scores in hundredths): every such reading an inlier; the
\* readings on a range bound exactly on the threshold -0.1; the readings on
\* a range bound below it.
Forests == {"inliers", "bounds_on_threshold", "bounds_outliers"}

\* float <= float.
Le(a, b) == a # NaN /\ b # NaN /\ a <= b

\* float >= float.
Ge(a, b) == a # NaN /\ b # NaN /\ a >= b

\* _check_critical_thresholds with a strict lower test on the heart rate.
_check_critical_thresholds_HeartRateStrict(reading) ==
    LET ranges == VITAL_RANGES IN
    IF (reading.heart_rate # NaN
            /\ reading.heart_rate < ranges.heart_rate.critical_low)
       \/ Ge(reading.heart_rate, ranges.heart_rate.critical_high)
    THEN TRUE
    ELSE IF Le(reading.spo2, ranges.spo2.critical_low)
    THEN TRUE
    ELSE IF Le(reading.temperature, ranges.temperature.critical_low)
            \/ Ge(reading.temperature, ranges.temperature.critical_high)
    THEN TRUE
    ELSE FALSE

\* _check_critical_thresholds with a strict test on the oxygen saturation.
_check_critical_thresholds_Spo2Strict(reading) ==
    LET ranges == VITAL_RANGES IN
    IF Le(reading.heart_rate, ranges.heart_rate.critical_low)
       \/ Ge(reading.heart_rate, ranges.heart_rate.critical_high)
    THEN TRUE
    ELSE IF reading.spo2 # NaN /\ reading.spo2 < ranges.spo2.critical_low
    THEN TRUE
    ELSE IF Le(reading.temperature, ranges.temperature.critical_low)
            \/ Ge(reading.temperature, ranges.temperature.critical_high)
    THEN TRUE
    ELSE FALSE

\* _check_critical_thresholds with a strict upper test on the temperature.
_check_critical_thresholds_TemperatureStrict(reading) ==
    LET ranges == VITAL_RANGES IN
    IF Le(reading.heart_rate, ranges.heart_rate.critical_low)
       \/ Ge(reading.heart_rate, ranges.heart_rate.critical_high)
    THEN TRUE
    ELSE IF Le(reading.spo2, ranges.spo2.critical_low)
    THEN TRUE
    ELSE IF Le(reading.temperature, ranges.temperature.critical_low)
            \/ (reading.temperature # NaN
                  /\ reading.temperature > ranges.temperature.critical_high)
    THEN TRUE
    ELSE FALSE

\* _check_critical_thresholds, lines 96-111.
_check_critical_thresholds(reading) ==
    LET ranges == VITAL_RANGES IN
    IF Le(reading.heart_rate, ranges.heart_rate.critical_low)
       \/ Ge(reading.heart_rate, ranges.heart_rate.critical_high)
    THEN TRUE
    ELSE IF Le(reading.spo2, ranges.spo2.critical_low)
    THEN TRUE
    ELSE IF Le(reading.temperature, ranges.temperature.critical_low)
            \/ Ge(reading.temperature, ranges.temperature.critical_high)
    THEN TRUE
    ELSE FALSE

\* _check_warning_thresholds that wants every vital outside its range.
_check_warning_thresholds_AllOutside(reading) ==
    LET ranges == VITAL_RANGES
        hr_warning == ~(Le(ranges.heart_rate.min, reading.heart_rate)
                          /\ Le(reading.heart_rate, ranges.heart_rate.max))
        spo2_warning == ~(Le(ranges.spo2.min, reading.spo2)
                            /\ Le(reading.spo2, ranges.spo2.max))
        temp_warning == ~(Le(ranges.temperature.min, reading.temperature)
                            /\ Le(reading.temperature, ranges.temperature.max))
    IN  hr_warning /\ spo2_warning /\ temp_warning

\* _check_warning_thresholds, lines 113-121.
_check_warning_thresholds(reading) ==
    LET ranges == VITAL_RANGES
        hr_warning == ~(Le(ranges.heart_rate.min, reading.heart_rate)
                          /\ Le(reading.heart_rate, ranges.heart_rate.max))
        spo2_warning == ~(Le(ranges.spo2.min, reading.spo2)
                            /\ Le(reading.spo2, ranges.spo2.max))
        temp_warning == ~(Le(ranges.temperature.min, reading.temperature)
                            /\ Le(reading.temperature, ranges.temperature.max))
    IN  hr_warning \/ spo2_warning \/ temp_warning

\* A vital of the reading sits on a bound of its normal range.
OnRangeBound(reading) ==
    \/ reading.heart_rate \in
           {VITAL_RANGES.heart_rate.min, VITAL_RANGES.heart_rate.max}
    \/ reading.spo2 \in {VITAL_RANGES.spo2.min, VITAL_RANGES.spo2.max}
    \/ reading.temperature \in
           {VITAL_RANGES.temperature.min, VITAL_RANGES.temperature.max}

\* self.model.decision_function(reading.to_array())[0], line 146, in
\* hundredths: the score a fitted forest gives a reading.
decision_function(forest, reading) ==
    IF forest = "inliers" THEN 5
    ELSE IF forest = "bounds_on_threshold"
    THEN (IF OnRangeBound(reading) THEN -10 ELSE 5)
    ELSE (IF OnRangeBound(reading) THEN -11 ELSE 5)

\* classify that asks the forest first and the threshold rules after it.
classify_ScoreFirst(reading) ==
    IF is_fitted /\ decision_function(model, reading) < -10 THEN "Warning"
    ELSE IF _check_critical_thresholds(reading) THEN "Critical"
    ELSE IF _check_warning_thresholds(reading) THEN "Warning"
    ELSE "Normal"

\* classify that takes a score equal to the threshold for an anomaly.
classify_ThresholdInclusive(reading) ==
    IF _check_critical_thresholds(reading) THEN "Critical"
    ELSE IF _check_warning_thresholds(reading) THEN "Warning"
    ELSE IF is_fitted /\ decision_function(model, reading) <= -10
    THEN "Warning"
    ELSE "Normal"

\* classify, lines 123-151.
classify(reading) ==
    IF _check_critical_thresholds(reading) THEN "Critical"
    ELSE IF _check_warning_thresholds(reading) THEN "Warning"
    ELSE IF is_fitted /\ decision_function(model, reading) < -10
    THEN "Warning"
    ELSE "Normal"

\* No call of the classifier is in progress: the last one has computed
\* every result.
NoCallInProgress == Len(results) = Len(readings)

\* fit(), lines 58-70.
Fit ==
    /\ NoCallInProgress
    /\ \E forest \in Forests : model' = forest
    /\ is_fitted' = TRUE
    /\ call' = "none"
    /\ readings' = <<>>
    /\ results' = <<>>
    /\ UNCHANGED <<consumerVars, apiVars>>

\* A call of classify(reading), lines 123-151.
Classify ==
    /\ NoCallInProgress
    /\ \E reading \in VitalReadings :
         /\ readings' = <<reading>>
         /\ results' = <<classify(reading)>>
    /\ call' = "classify"
    /\ UNCHANGED <<is_fitted, model>>
    /\ UNCHANGED <<consumerVars, apiVars>>

\* A call of classify_batch(readings), line 153.
ClassifyBatch ==
    /\ NoCallInProgress
    /\ readings' \in ReadingLists(MaxBatch)
    /\ results' = <<>>
    /\ call' = "classify_batch"
    /\ UNCHANGED <<is_fitted, model>>
    /\ UNCHANGED <<consumerVars, apiVars>>

\* ClassifyBatchStep with state carried from one element to the next: a
\* reading that follows a Critical one is never Normal.
ClassifyBatchStep_CarriesState ==
    /\ call = "classify_batch"
    /\ Len(results) < Len(readings)
    /\ LET state == classify(readings[Len(results) + 1]) IN
       results' = Append(results,
                         IF Len(results) > 0 /\ results[Len(results)] = "Critical"
                            /\ state = "Normal"
                         THEN "Warning" ELSE state)
    /\ UNCHANGED <<is_fitted, model, call, readings>>
    /\ UNCHANGED <<consumerVars, apiVars>>

\* classify_batch, line 155: the next element of the list comprehension.
ClassifyBatchStep ==
    /\ call = "classify_batch"
    /\ Len(results) < Len(readings)
    /\ results' = Append(results, classify(readings[Len(results) + 1]))
    /\ UNCHANGED <<is_fitted, model, call, readings>>
    /\ UNCHANGED <<consumerVars, apiVars>>

\* A classifier in use while the consumer process has not been started.
ClassifierInit ==
    /\ ConsumerInit
    /\ log = [offset \in Offsets |-> "Normal"]
    /\ ClassifierIdle
    /\ ApiIdle

ClassifierNext ==
    \/ Fit
    \/ Classify
    \/ ClassifyBatch
    \/ ClassifyBatchStep

ClassifierSpec == ClassifierInit /\ [][ClassifierNext]_vars

\* ------------------------------------------------------ VitalsConsumer

\* Connect with a consumer that starts at the beginning of the partition
\* whatever offset the group has committed.
Connect_FromBeginning ==
    /\ pc = "consume"
    /\ consumer = "none"
    /\ \E ok \in BOOLEAN :
         IF ok
         THEN /\ consumer' = "open"
              /\ position' = 0
              /\ pc' = "set_running"
         ELSE /\ pc' = "connect_failed"
              /\ UNCHANGED <<consumer, position>>
    /\ UNCHANGED <<brokerVars, storeVars, session, running, iterVars, exc, stopVars>>
    /\ UNCHANGED <<msg_error, apiCalled, stopInFlight>>
    /\ UNCHANGED <<classifierVars, apiVars, kept>>

\* consume(), lines 198-200: connect when there is no consumer yet.  A new
\* consumer of the group starts at the group's committed offset.
Connect ==
    /\ pc = "consume"
    /\ consumer = "none"
    /\ \E ok \in BOOLEAN :
         IF ok
         THEN /\ consumer' = "open"
              /\ position' = committed
              /\ pc' = "set_running"
         ELSE /\ pc' = "connect_failed"
              /\ UNCHANGED <<consumer, position>>
    /\ UNCHANGED <<brokerVars, storeVars, session, running, iterVars, exc, stopVars>>
    /\ UNCHANGED <<msg_error, apiCalled, stopInFlight>>
    /\ UNCHANGED <<classifierVars, apiVars, kept>>

\* consume(), line 202.
SetRunning ==
    /\ pc = "set_running"
    /\ running' = TRUE
    /\ pc' = "loop"
    /\ UNCHANGED <<brokerVars, storeVars, session, consumer, position, iterVars,
                   exc, stopVars>>
    /\ UNCHANGED <<msg_error, apiCalled, stopInFlight>>
    /\ UNCHANGED <<classifierVars, apiVars, kept>>

\* The locals of one loop iteration, unset.
ClearIteration ==
    /\ msg' = NoMsg
    /\ data' = "unset"
    /\ event_vitals' = NoReading
    /\ llm_summary' = NoSummary
    /\ service' = "no_call"
    /\ dbCommit' = "not_run"
    /\ commitCalled' = "no"
    /\ commitResult' = "none"
    /\ success' = "unset"
    /\ msg_error' = "none"
    /\ apiCalled' = FALSE

\* consume(), line 210: the loop condition.  The previous iteration's
\* locals are dead from here on.
LoopCheck ==
    /\ pc = "loop"
    /\ pc' = IF running THEN "poll" ELSE "finally"
    /\ ClearIteration
    /\ UNCHANGED <<brokerVars, storeVars, session, consumer, running, position,
                   exc, stopVars>>
    /\ UNCHANGED <<stopInFlight>>
    /\ UNCHANGED <<classifierVars, apiVars, kept>>

\* _handle_kafka_error taking the loss of every broker for fatal.
_handle_kafka_error_BrokersDownStops(error_code) ==
    IF error_code = "_PARTITION_EOF" THEN TRUE
    ELSE IF error_code = "_ALL_BROKERS_DOWN" THEN FALSE
    ELSE IF error_code = "_TRANSPORT" THEN TRUE
    ELSE IF error_code = "_TIMED_OUT" THEN TRUE
    ELSE IF error_code = "UNKNOWN_TOPIC_OR_PART" THEN TRUE
    ELSE IF error_code = "_FATAL" THEN FALSE
    ELSE TRUE

\* _handle_kafka_error taking a fatal error for recoverable (lines 176-178
\* left out).
_handle_kafka_error_FatalGoesOn(error_code) ==
    IF error_code = "_PARTITION_EOF" THEN TRUE
    ELSE IF error_code = "_ALL_BROKERS_DOWN" THEN TRUE
    ELSE IF error_code = "_TRANSPORT" THEN TRUE
    ELSE IF error_code = "_TIMED_OUT" THEN TRUE
    ELSE IF error_code = "UNKNOWN_TOPIC_OR_PART" THEN TRUE
    ELSE TRUE

\* _handle_kafka_error stopping on every code it does not name (the last
\* line returning False).
_handle_kafka_error_OtherStops(error_code) ==
    IF error_code = "_PARTITION_EOF" THEN TRUE
    ELSE IF error_code = "_ALL_BROKERS_DOWN" THEN TRUE
    ELSE IF error_code = "_TRANSPORT" THEN TRUE
    ELSE IF error_code = "_TIMED_OUT" THEN TRUE
    ELSE IF error_code = "UNKNOWN_TOPIC_OR_PART" THEN TRUE
    ELSE IF error_code = "_FATAL" THEN FALSE
    ELSE FALSE

\* _handle_kafka_error: TRUE when the loop goes on.
_handle_kafka_error(error_code) ==
    IF error_code = "_PARTITION_EOF" THEN TRUE
    ELSE IF error_code = "_ALL_BROKERS_DOWN" THEN TRUE
    ELSE IF error_code = "_TRANSPORT" THEN TRUE
    ELSE IF error_code = "_TIMED_OUT" THEN TRUE
    ELSE IF error_code = "UNKNOWN_TOPIC_OR_PART" THEN TRUE
    ELSE IF error_code = "_FATAL" THEN FALSE
    ELSE TRUE

\* consume(), lines 211-214: poll() returned no message.
PollNone ==
    /\ pc = "poll"
    /\ consumer = "open"
    /\ pc' = "loop"
    /\ UNCHANGED <<brokerVars, storeVars, session, consumer, running, position,
                   iterVars, exc, stopVars>>
    /\ UNCHANGED <<msg_error, apiCalled, stopInFlight>>
    /\ UNCHANGED <<classifierVars, apiVars, kept>>

\* consume(), lines 216-221: poll() returned an error message.
PollError(code) ==
    /\ pc = "poll"
    /\ consumer = "open"
    /\ msg_error' = code
    /\ pc' = IF _handle_kafka_error(code) THEN "loop" ELSE "finally"
    /\ UNCHANGED <<brokerVars, storeVars, session, consumer, running, position,
                   iterVars, exc, stopVars>>
    /\ UNCHANGED <<apiCalled, stopInFlight>>
    /\ UNCHANGED <<classifierVars, apiVars, kept>>

\* PollMessage with 'enable.auto.commit' left at its default: poll() commits
\* the offsets of the messages the earlier polls returned.
PollMessage_AutoCommit ==
    /\ pc = "poll"
    /\ consumer = "open"
    /\ position < NumMsgs
    /\ msg' = position
    /\ position' = position + 1
    /\ committed' = position
    /\ pc' = "decode"
    /\ UNCHANGED <<log, storeVars, session, consumer, running, data,
                   llm_summary, service, dbCommit, commitCalled, commitResult, success, exc,
                   stopVars>>
    /\ UNCHANGED <<msg_error, apiCalled, stopInFlight>>
    /\ UNCHANGED <<classifierVars, apiVars, kept>>
    /\ UNCHANGED event_vitals

\* consume(), line 211: poll() returned the next message of the partition.
PollMessage ==
    /\ pc = "poll"
    /\ consumer = "open"
    /\ position < NumMsgs
    /\ msg' = position
    /\ position' = position + 1
    /\ pc' = "decode"
    /\ UNCHANGED <<brokerVars, storeVars, session, consumer, running, data,
                   llm_summary, service, dbCommit, commitCalled, commitResult, success, exc,
                   stopVars>>
    /\ UNCHANGED <<msg_error, apiCalled, stopInFlight>>
    /\ UNCHANGED <<classifierVars, apiVars, kept>>
    /\ UNCHANGED event_vitals

\* consume(), line 211 on a consumer another thread has closed: poll()
\* raises RuntimeError, which leaves the loop through the finally clause.
PollClosed ==
    /\ pc = "poll"
    /\ consumer = "closed"
    /\ exc' = TRUE
    /\ pc' = "finally"
    /\ UNCHANGED <<brokerVars, storeVars, session, consumer, running, position,
                   iterVars, stopVars>>
    /\ UNCHANGED <<msg_error, apiCalled, stopInFlight>>
    /\ UNCHANGED <<classifierVars, apiVars, kept>>

\* _decode_message: None for a null value, bytes that are not UTF-8 and
\* text that is not JSON; the decoded object otherwise.
_decode_message(payload) ==
    IF payload = "null_value" THEN None
    ELSE IF payload = "invalid_json" THEN None
    ELSE IF payload = "invalid_utf8" THEN None
    ELSE payload

\* json.loads of a payload, line 126: what the handler is given.  The log
\* keeps the kind of each payload; the defect of a malformed event shows
\* when it is decoded.
Decoded(payload) ==
    IF payload = "malformed_event" THEN MalformedEvents
    ELSE {_decode_message(payload)}

\* data['vitals'] of the events on the topic: a reading the classifier
\* calls Normal and one it calls Critical, under every tag.
EventReadings == {VitalReading(750, 980, 366), VitalReading(1500, 880, 395)}

\* Decode going back to the poll without committing a message that does
\* not decode.
Decode_SkipWithoutCommit ==
    /\ pc = "decode"
    /\ data' \in Decoded(log[msg])
    /\ event_vitals' \in (IF data' \in StateTags THEN EventReadings ELSE {NoReading})
    /\ pc' = IF data' = None THEN "loop" ELSE "handler"
    /\ UNCHANGED <<brokerVars, storeVars, session, consumer, running, position,
                   msg, llm_summary, service, dbCommit, commitCalled, commitResult,
                   success, exc, stopVars>>
    /\ UNCHANGED <<msg_error, apiCalled, stopInFlight>>
    /\ UNCHANGED <<classifierVars, apiVars, kept>>

\* consume(), lines 224-229 and 238: decode, then skip or dispatch.
Decode ==
    /\ pc = "decode"
    /\ data' \in Decoded(log[msg])
    /\ event_vitals' \in (IF data' \in StateTags THEN EventReadings ELSE {NoReading})
    /\ pc' = IF data' = None THEN "skip_commit" ELSE "handler"
    /\ UNCHANGED <<brokerVars, storeVars, session, consumer, running, position,
                   msg, llm_summary, service, dbCommit, commitCalled, commitResult, success,
                   exc, stopVars>>
    /\ UNCHANGED <<msg_error, apiCalled, stopInFlight>>
    /\ UNCHANGED <<classifierVars, apiVars, kept>>

\* Consumer.commit(message=msg, asynchronous=False): what the client library
\* does with the call in the consumer's present state.
CommitOutcomes ==
    IF consumer = "none" THEN {"not_connected"}
    ELSE IF consumer = "closed" THEN {"RuntimeError"}
    ELSE {"committed", "KafkaException"}

\* commit_offset(msg): "True", "False", or "raise" when the exception is not
\* a KafkaException.
commit_offset_result(outcome) ==
    IF outcome = "not_connected" THEN "False"
    ELSE IF outcome = "committed" THEN "True"
    ELSE IF outcome = "KafkaException" THEN "False"
    ELSE "raise"

\* commit_offset with a commit that, when it is not accepted, throws the
\* group's committed offset away.
commit_offset_effect_FailureResets(message, outcome) ==
    IF outcome = "committed" THEN message + 1 ELSE 0

\* commit_offset(msg): the broker's committed offset afterwards.
commit_offset_effect(message, outcome) ==
    IF outcome = "committed" THEN message + 1 ELSE committed

\* commit_callback reading the loop's msg when it is invoked, in place of
\* the message create_commit_callback was given.
commit_callback_LoopVariable(message) ==
    msg

\* consume(), lines 232-235: the message a callback made by
\* create_commit_callback(message) hands to commit_offset when it is
\* invoked.  The closure holds the parameter, not the loop's msg.
commit_callback(message) ==
    message

\* consume(), lines 225-229: a message that does not decode is committed
\* and dropped.  An exception of commit_offset leaves the loop.
SkipCommit ==
    /\ pc = "skip_commit"
    /\ \E outcome \in CommitOutcomes :
         /\ committed' = commit_offset_effect(msg, outcome)
         /\ commitCalled' = "loop"
         /\ commitResult' = commit_offset_result(outcome)
         /\ IF commit_offset_result(outcome) = "raise"
            THEN exc' = TRUE /\ pc' = "finally"
            ELSE exc' = exc /\ pc' = "loop"
    /\ UNCHANGED <<log, storeVars, session, consumer, running, position, msg,
                   data, llm_summary, service, dbCommit, success, stopVars>>
    /\ UNCHANGED <<msg_error, apiCalled, stopInFlight>>
    /\ UNCHANGED <<classifierVars, apiVars, kept>>
    /\ UNCHANGED event_vitals

\* ------------------------------------------------- triage enrichment

\* str(e): the text of an exception, identified by the exception.
str(e) == <<"text of", e>>

\* Fallback row of lines 372-381: the client could not be set up.
InitErrorSummary ==
    [table |-> "llm_summaries", tx |-> 0, risk_score |-> 100, triage_level |-> "Immediate",
     model_version |-> "LLM_INIT_ERROR",
     summary_text |-> <<"FATAL ERROR: LLM Triage failed to initialize client.">>]

\* Fallback row of lines 469-478: the response failed schema validation.
ValidationErrorSummary(e) ==
    [table |-> "llm_summaries", tx |-> 0, risk_score |-> 99, triage_level |-> "Immediate",
     model_version |-> "VALIDATION_ERROR",
     summary_text |-> <<"ERROR: LLM Triage failed Pydantic validation. Exception: ">>
                      \o str(e)]

\* Fallback row of lines 482-491: any other failure of the call.
ApiErrorSummary(e) ==
    [table |-> "llm_summaries", tx |-> 0, risk_score |-> 99, triage_level |-> "Immediate",
     model_version |-> "LLM_API_ERROR",
     summary_text |-> <<"ERROR: LLM Triage API call failed. Exception: ">> \o str(e)]

\* Objects the reasoning service may put out (risk_score in hundredths).
ModelOutputs ==
    [risk_score : {-1, 0, 85, 100, 101},
     triage_level : TriageLevels \cup {"Critical"}]

\* ClinicianTriageSchema, schemas.py lines 27-37: the object validates.
ClinicianTriageSchema(raw) ==
    /\ raw.risk_score >= 0
    /\ raw.risk_score <= 100
    /\ raw.triage_level \in {"Immediate", "Urgent", "Standard"}

\* response.parsed of a valid response (risk_score in hundredths).
ParsedResponse(behaviour) ==
    [risk_score |-> 85, triage_level |-> "Urgent"]

\* ModelSummary storing the risk score as a percentage.
ModelSummary_RiskAsPercent(triage_data) ==
    [table |-> "llm_summaries", tx |-> 0,
     risk_score |-> triage_data.risk_score * 100,
     triage_level |-> triage_data.triage_level,
     model_version |-> "gemini-2.5-flash",
     summary_text |-> <<"**Triage Level: ", triage_data.triage_level>>]

\* Row of lines 453-464: the service's answer.
ModelSummary(triage_data) ==
    [table |-> "llm_summaries", tx |-> 0,
     risk_score |-> triage_data.risk_score,
     triage_level |-> triage_data.triage_level,
     model_version |-> "gemini-2.5-flash",
     summary_text |-> <<"**Triage Level: ", triage_data.triage_level>>]

\* genai.Client(), line 368: the exception it raises, or "none".
ClientSetup(behaviour) ==
    IF behaviour = "client_init_fails" THEN "Exception" ELSE "none"

\* generate_critical_summary going on to the call after a failed set-up.
generate_content_called_NoEarlyReturn(behaviour) ==
    TRUE

\* generate_critical_summary, lines 367-381 and 419: generate_content is
\* called unless the client set-up failed and the function returned early.
generate_content_called(behaviour) ==
    ClientSetup(behaviour) = "none"

\* Lines 419-464: the exception the call and the mapping of its response
\* raise, or "none".  A response without a parsed object makes the first
\* attribute access on None raise AttributeError.
CallRaises(behaviour) ==
    IF behaviour = "call_raises" THEN "APIError"
    ELSE IF behaviour = "validation_fails" THEN "ValidationError"
    ELSE IF behaviour = "parsed_missing" THEN "AttributeError"
    ELSE "none"

Raised == [table |-> "raised"]

\* generate_critical_summary without the last except clause (lines 479-491).
generate_critical_summary_NoGenericExcept(behaviour) ==
    IF ClientSetup(behaviour) # "none"
    THEN InitErrorSummary
    ELSE LET e == CallRaises(behaviour) IN
         IF e = "none" THEN ModelSummary(ParsedResponse(behaviour))
         ELSE IF e = "ValidationError" THEN ValidationErrorSummary(e)
         ELSE Raised

\* generate_critical_summary whose last except clause returns the row of
\* the client set-up failure.
generate_critical_summary_ApiAsInit(behaviour) ==
    IF ClientSetup(behaviour) # "none"
    THEN InitErrorSummary
    ELSE LET e == CallRaises(behaviour) IN
         IF e = "none" THEN ModelSummary(ParsedResponse(behaviour))
         ELSE IF e = "ValidationError" THEN ValidationErrorSummary(e)
         ELSE IF e \in {"APIError", "AttributeError", "Exception"}
              THEN InitErrorSummary
         ELSE Raised

\* generate_critical_summary without the ValidationError clause (lines
\* 466-478): a validation failure reaches the generic clause.
generate_critical_summary_NoValidationClause(behaviour) ==
    IF ClientSetup(behaviour) # "none"
    THEN InitErrorSummary
    ELSE LET e == CallRaises(behaviour) IN
         IF e = "none" THEN ModelSummary(ParsedResponse(behaviour))
         ELSE IF e \in {"APIError", "AttributeError", "Exception", "ValidationError"}
              THEN ApiErrorSummary(e)
         ELSE Raised

\* generate_critical_summary: the LLMSummary it returns, or Raised when an
\* exception leaves it.
generate_critical_summary(behaviour) ==
    IF ClientSetup(behaviour) # "none"
    THEN InitErrorSummary
    ELSE LET e == CallRaises(behaviour) IN
         IF e = "none" THEN ModelSummary(ParsedResponse(behaviour))
         ELSE IF e = "ValidationError" THEN ValidationErrorSummary(e)
         ELSE IF e \in {"APIError", "AttributeError", "Exception"}
              THEN ApiErrorSummary(e)
         ELSE Raised

\* ------------------------------------------------ message_handler.handler

\* The producer stamps its readings in the order it sends them.
EventTimestamp(offset) == offset + 1

\* A row of vitals_records (models.py, lines 21-39).
Row(patient_id, state_classified, reading_timestamp, offset, tx) ==
    [table |-> "vitals_records", tx |-> tx, kafka_offset |-> offset,
     state_classified |-> state_classified, patient_id |-> patient_id,
     reading_timestamp |-> reading_timestamp]

\* The VitalsRecord of lines 293-303.
VitalsRecord(event, offset) ==
    Row(EventPatient, event, EventTimestamp(offset), offset, 0)

\* StageRaises with state_classified read by data.get('state_classified'),
\* which does not raise on an event without the field.
StageRaises_StateOptional(event) ==
    event \in MalformedEvents \ {"missing_state_classified"}

\* Lines 288-303 raise: fromisoformat rejects the timestamp, or a subscript
\* finds no 'timestamp', 'patient_id', 'vitals' field or 'state_classified'.
StageRaises(event) ==
    event \in MalformedEvents

\* HandlerStage with the enrichment test widened to every reading that is
\* not Normal.
HandlerStage_EnrichNotNormal ==
    /\ pc = "handler"
    /\ IF StageRaises(data)
       THEN /\ pc' = "h_except"
            /\ UNCHANGED session
       ELSE /\ session' = Append(session, VitalsRecord(data, msg))
            /\ pc' = IF data # "Normal" THEN "h_enrich" ELSE "h_commit"
    /\ UNCHANGED <<brokerVars, storeVars, consumer, running, position, iterVars,
                   exc, stopVars>>
    /\ UNCHANGED <<msg_error, apiCalled, stopInFlight>>
    /\ UNCHANGED <<classifierVars, apiVars, kept>>

\* HandlerStage that classifies the vitals of the event again and uses its
\* own answer for the record and for the enrichment test.
HandlerStage_Reclassify ==
    /\ pc = "handler"
    /\ IF StageRaises(data)
       THEN /\ pc' = "h_except"
            /\ UNCHANGED session
       ELSE /\ session' = Append(session, VitalsRecord(classify(event_vitals), msg))
            /\ pc' = IF classify(event_vitals) = "Critical"
                     THEN "h_enrich" ELSE "h_commit"
    /\ UNCHANGED <<brokerVars, storeVars, consumer, running, position, iterVars,
                   exc, stopVars>>
    /\ UNCHANGED <<msg_error, apiCalled, stopInFlight>>
    /\ UNCHANGED <<classifierVars, apiVars, kept>>

\* handler, lines 286-305: parse the timestamp, build the record, add it to
\* the session.  A missing field or a bad timestamp raises before the add.
HandlerStage ==
    /\ pc = "handler"
    /\ IF StageRaises(data)
       THEN /\ pc' = "h_except"
            /\ UNCHANGED session
       ELSE /\ session' = Append(session, VitalsRecord(data, msg))
            /\ pc' = IF data = "Critical" THEN "h_enrich" ELSE "h_commit"
    /\ UNCHANGED <<brokerVars, storeVars, consumer, running, position, iterVars,
                   exc, stopVars>>
    /\ UNCHANGED <<msg_error, apiCalled, stopInFlight>>
    /\ UNCHANGED <<classifierVars, apiVars, kept>>

\* HandlerEnrich without db.session.add(llm_summary) (line 311).
HandlerEnrich_SummaryNotStaged ==
    /\ pc = "h_enrich"
    /\ \E behaviour \in ServiceBehaviours :
         LET summary == generate_critical_summary(behaviour) IN
         /\ service' = behaviour
         /\ apiCalled' = generate_content_called(behaviour)
         /\ IF summary = Raised
            THEN /\ pc' = "h_except"
                 /\ UNCHANGED <<llm_summary, session>>
            ELSE /\ llm_summary' = summary
                 /\ UNCHANGED session
                 /\ pc' = "h_commit"
    /\ UNCHANGED <<brokerVars, storeVars, consumer, running, position, msg, data,
                   dbCommit, commitCalled, commitResult, success, exc, stopVars>>
    /\ UNCHANGED <<msg_error, stopInFlight>>
    /\ UNCHANGED <<classifierVars, apiVars, kept>>
    /\ UNCHANGED event_vitals

\* handler, lines 309-311: enrichment of a Critical reading.
HandlerEnrich ==
    /\ pc = "h_enrich"
    /\ \E behaviour \in ServiceBehaviours :
         LET summary == generate_critical_summary(behaviour) IN
         /\ service' = behaviour
         /\ apiCalled' = generate_content_called(behaviour)
         /\ IF summary = Raised
            THEN /\ pc' = "h_except"
                 /\ UNCHANGED <<llm_summary, session>>
            ELSE /\ llm_summary' = summary
                 /\ session' = Append(session, summary)
                 /\ pc' = "h_commit"
    /\ UNCHANGED <<brokerVars, storeVars, consumer, running, position, msg, data,
                   dbCommit, commitCalled, commitResult, success, exc, stopVars>>
    /\ UNCHANGED <<msg_error, stopInFlight>>
    /\ UNCHANGED <<classifierVars, apiVars, kept>>
    /\ UNCHANGED event_vitals

\* Rows of one table among the staged rows, each stamped with the number
\* of the transaction that commits them (tx is 0 while a row is staged).
RECURSIVE Flushed(_, _, _)
Flushed(rows, table, tx) ==
    IF rows = <<>> THEN <<>>
    ELSE LET rest == Flushed(Tail(rows), table, tx) IN
         IF Head(rows).table = table
         THEN <<[Head(rows) EXCEPT !.tx = tx]>> \o rest
         ELSE rest

\* HandlerDbCommit going on to the offset commit when the storage commit
\* has raised.
HandlerDbCommit_IgnoreFailure ==
    /\ pc = "h_commit"
    /\ \E ok \in BOOLEAN :
         IF ok
         THEN /\ vitals_records' =
                    vitals_records \o Flushed(session, "vitals_records", ntx + 1)
              /\ llm_summaries' =
                    llm_summaries \o Flushed(session, "llm_summaries", ntx + 1)
              /\ ntx' = ntx + 1
              /\ session' = <<>>
              /\ dbCommit' = "ok"
              /\ pc' = "h_ack"
         ELSE /\ dbCommit' = "failed"
              /\ pc' = "h_ack"
              /\ UNCHANGED <<storeVars, session>>
    /\ UNCHANGED <<brokerVars, consumer, running, position, msg, data,
                   llm_summary, service, commitCalled, commitResult, success, exc,
                   stopVars>>
    /\ UNCHANGED <<msg_error, apiCalled, stopInFlight>>
    /\ UNCHANGED <<classifierVars, apiVars, kept>>
    /\ UNCHANGED event_vitals

\* HandlerDbCommit on a vitals_records table with a unique constraint on
\* the log coordinates: a staged record whose offset is already in the
\* table makes the commit raise.
HandlerDbCommit_UniqueOffsets ==
    /\ pc = "h_commit"
    /\ \E ok \in BOOLEAN :
         IF ok /\ \A i \in 1 .. Len(vitals_records) :
                      vitals_records[i].kafka_offset # msg
         THEN /\ vitals_records' =
                    vitals_records \o Flushed(session, "vitals_records", ntx + 1)
              /\ llm_summaries' =
                    llm_summaries \o Flushed(session, "llm_summaries", ntx + 1)
              /\ ntx' = ntx + 1
              /\ session' = <<>>
              /\ dbCommit' = "ok"
              /\ pc' = "h_ack"
         ELSE /\ dbCommit' = "failed"
              /\ pc' = "h_except"
              /\ UNCHANGED <<storeVars, session>>
    /\ UNCHANGED <<brokerVars, consumer, running, position, msg, data,
                   llm_summary, service, commitCalled, commitResult, success, exc,
                   stopVars>>
    /\ UNCHANGED <<msg_error, apiCalled, stopInFlight>>
    /\ UNCHANGED <<classifierVars, apiVars, kept>>
    /\ UNCHANGED event_vitals

\* handler, line 321: db.session.commit() writes every staged row in one
\* transaction, or raises and writes none.
HandlerDbCommit ==
    /\ pc = "h_commit"
    /\ \E ok \in BOOLEAN :
         IF ok
         THEN /\ vitals_records' =
                    vitals_records \o Flushed(session, "vitals_records", ntx + 1)
              /\ llm_summaries' =
                    llm_summaries \o Flushed(session, "llm_summaries", ntx + 1)
              /\ ntx' = ntx + 1
              /\ session' = <<>>
              /\ dbCommit' = "ok"
              /\ pc' = "h_ack"
         ELSE /\ dbCommit' = "failed"
              /\ pc' = "h_except"
              /\ UNCHANGED <<storeVars, session>>
    /\ UNCHANGED <<brokerVars, consumer, running, position, msg, data,
                   llm_summary, service, commitCalled, commitResult, success, exc,
                   stopVars>>
    /\ UNCHANGED <<msg_error, apiCalled, stopInFlight>>
    /\ UNCHANGED <<classifierVars, apiVars, kept>>
    /\ UNCHANGED event_vitals

\* HandlerAck returning what the commit callback returned.
HandlerAck_ReturnCommitResult ==
    /\ pc = "h_ack"
    /\ \E outcome \in CommitOutcomes :
         /\ committed' = commit_offset_effect(msg, outcome)
         /\ commitCalled' = "handler"
         /\ commitResult' = commit_offset_result(outcome)
         /\ IF commit_offset_result(outcome) = "raise"
            THEN pc' = "h_except" /\ UNCHANGED success
            ELSE pc' = "loop" /\ success' = commit_offset_result(outcome)
    /\ UNCHANGED <<log, storeVars, session, consumer, running, position, msg,
                   data, llm_summary, service, dbCommit, exc, stopVars>>
    /\ UNCHANGED <<msg_error, apiCalled, stopInFlight>>
    /\ UNCHANGED <<classifierVars, apiVars, kept>>
    /\ UNCHANGED event_vitals

\* HandlerAck returning True without calling the commit callback.
HandlerAck_NoCommit ==
    /\ pc = "h_ack"
    /\ pc' = "loop"
    /\ success' = "True"
    /\ UNCHANGED <<brokerVars, storeVars, session, consumer, running, position,
                   msg, data, llm_summary, service, dbCommit, commitCalled,
                   commitResult, exc, stopVars>>
    /\ UNCHANGED <<msg_error, apiCalled, stopInFlight>>
    /\ UNCHANGED <<classifierVars, apiVars, kept>>
    /\ UNCHANGED event_vitals

\* handler, lines 328-336, and consume(), lines 246-248: call the commit
\* callback; return True whether it returned True or False.  An exception
\* of the callback is caught by the handler's except clause.
HandlerAck ==
    /\ pc = "h_ack"
    /\ \E outcome \in CommitOutcomes :
         /\ committed' = commit_offset_effect(commit_callback(msg), outcome)
         /\ commitCalled' = "handler"
         /\ commitResult' = commit_offset_result(outcome)
         /\ IF commit_offset_result(outcome) = "raise"
            THEN pc' = "h_except" /\ UNCHANGED success
            ELSE pc' = "loop" /\ success' = "True"
    /\ UNCHANGED <<log, storeVars, session, consumer, running, position, msg,
                   data, llm_summary, service, dbCommit, exc, stopVars>>
    /\ UNCHANGED <<msg_error, apiCalled, stopInFlight>>
    /\ UNCHANGED <<classifierVars, apiVars, kept>>
    /\ UNCHANGED event_vitals

\* HandlerExcept without the rollback of line 340.
HandlerExcept_NoRollback ==
    /\ pc = "h_except"
    /\ success' = "False"
    /\ pc' = "loop"
    /\ UNCHANGED <<brokerVars, storeVars, session, consumer, running, position,
                   msg, data, llm_summary, service, dbCommit, commitCalled,
                   commitResult, exc, stopVars>>
    /\ UNCHANGED <<msg_error, apiCalled, stopInFlight>>
    /\ UNCHANGED <<classifierVars, apiVars, kept>>
    /\ UNCHANGED event_vitals

\* handler, lines 338-342, and consume(), lines 249-255: roll back and
\* return False.
HandlerExcept ==
    /\ pc = "h_except"
    /\ session' = <<>>
    /\ success' = "False"
    /\ pc' = "loop"
    /\ UNCHANGED <<brokerVars, storeVars, consumer, running, position, msg, data,
                   llm_summary, service, dbCommit, commitCalled, commitResult, exc,
                   stopVars>>
    /\ UNCHANGED <<msg_error, apiCalled, stopInFlight>>
    /\ UNCHANGED <<classifierVars, apiVars, kept>>
    /\ UNCHANGED event_vitals

\* ------------------------------------------------------------- shutdown

\* Finally as a plain return: consume() ends without calling stop().
Finally_WithoutStop ==
    /\ pc = "finally"
    /\ pc' = IF exc THEN "raised" ELSE "returned"
    /\ UNCHANGED <<brokerVars, storeVars, session, consumer, running, position,
                   iterVars, exc, stopVars>>
    /\ UNCHANGED <<msg_error, apiCalled, stopInFlight>>
    /\ UNCHANGED <<classifierVars, apiVars, kept>>

\* consume(), lines 270-271: the finally clause runs stop().  Closing a
\* consumer that is already closed raises, and stop() swallows it.
Finally ==
    /\ pc = "finally"
    /\ running' = FALSE
    /\ consumer' = IF consumer = "open" THEN "closed" ELSE consumer
    /\ pc' = IF exc THEN "raised" ELSE "returned"
    /\ UNCHANGED <<brokerVars, storeVars, session, position, iterVars, exc,
                   stopVars>>
    /\ UNCHANGED <<msg_error, apiCalled, stopInFlight>>
    /\ UNCHANGED <<classifierVars, apiVars, kept>>

\* stop() on another thread, line 279.
StopFlag ==
    /\ stopPc = "idle"
    /\ running' = FALSE
    /\ stopInFlight' = (pc \in HandlerPcs)
    /\ stopPc' = "close"
    /\ UNCHANGED <<brokerVars, storeVars, session, consumer, position, pc,
                   iterVars, exc, restarts>>
    /\ UNCHANGED <<msg_error, apiCalled>>
    /\ UNCHANGED <<classifierVars, apiVars, kept>>

\* stop() on another thread, lines 280-285.
StopClose ==
    /\ stopPc = "close"
    /\ consumer' = IF consumer = "open" THEN "closed" ELSE consumer
    /\ stopPc' = "done"
    /\ UNCHANGED <<brokerVars, storeVars, session, running, position, pc,
                   iterVars, exc, restarts>>
    /\ UNCHANGED <<msg_error, apiCalled, stopInFlight>>
    /\ UNCHANGED <<classifierVars, apiVars, kept>>

\* The process dies and is started again (run_consumer): a new
\* VitalsConsumer and a new session; the broker and the store keep what was
\* committed.
Restart ==
    /\ restarts < MaxRestarts
    /\ restarts' = restarts + 1
    /\ session' = <<>>
    /\ consumer' = "none"
    /\ running' = FALSE
    /\ position' = 0
    /\ pc' = "consume"
    /\ ClearIteration
    /\ exc' = FALSE
    /\ stopPc' = "idle"
    /\ stopInFlight' = FALSE
    /\ kept' = NoMsg
    /\ UNCHANGED <<brokerVars, storeVars>>
    /\ UNCHANGED <<classifierVars, apiVars>>

\* ------------------------------------------------------- specification

Next ==
    \/ Connect
    \/ SetRunning
    \/ LoopCheck
    \/ PollNone
    \/ \E code \in ErrorCodes : PollError(code)
    \/ PollMessage
    \/ PollClosed
    \/ Decode
    \/ SkipCommit
    \/ HandlerStage
    \/ HandlerEnrich
    \/ HandlerDbCommit
    \/ HandlerAck
    \/ HandlerExcept
    \/ Finally
    \/ StopFlag
    \/ StopClose
    \/ Restart

Spec == Init /\ [][Next]_vars

\* The thread that runs consume() keeps running: once control is in the
\* finally clause of lines 270-271, stop() is executed unless the process
\* dies first.
LiveSpec == Spec /\ WF_vars(Finally)

\* ------------------------------------------- consume() with any handler

\* message_handler is a parameter of consume().  A handler may invoke the
\* commit callback it is given, or one it has kept from an earlier
\* invocation, at most once per invocation; it returns True or False, or
\* raises; it may keep the callback of this invocation for later.

\* The handler invokes a commit callback: its own (which = "own") or the
\* one it has kept (which = "kept").  An exception of the callback leaves
\* the handler.
InvokeCallback(which) ==
    /\ pc = "handler"
    /\ commitCalled = "no"
    /\ which = "kept" => kept # NoMsg
    /\ LET bound == IF which = "own" THEN msg ELSE kept IN
       \E outcome \in CommitOutcomes :
         /\ committed' = commit_offset_effect(commit_callback(bound), outcome)
         /\ commitCalled' = IF which = "own" THEN "handler" ELSE "kept"
         /\ commitResult' = commit_offset_result(outcome)
         /\ pc' = IF commit_offset_result(outcome) = "raise"
                  THEN "handler_raised" ELSE "handler"
    /\ UNCHANGED <<log, storeVars, session, consumer, running, position, msg,
                   data, event_vitals, llm_summary, service, dbCommit, success,
                   exc, stopVars>>
    /\ UNCHANGED <<msg_error, apiCalled, stopInFlight>>
    /\ UNCHANGED <<classifierVars, apiVars, kept>>

\* consume(), lines 239-255: the handler returns.
HandlerReturns(result, keep) ==
    /\ pc = "handler"
    /\ success' = result
    /\ kept' = IF keep THEN msg ELSE kept
    /\ pc' = "loop"
    /\ UNCHANGED <<brokerVars, storeVars, session, consumer, running, position,
                   msg, data, event_vitals, llm_summary, service, dbCommit,
                   commitCalled, commitResult, exc, stopVars>>
    /\ UNCHANGED <<msg_error, apiCalled, stopInFlight>>
    /\ UNCHANGED <<classifierVars, apiVars>>

\* consume(), lines 239-244 and 257: the handler raises an Exception.
HandlerRaises(keep) ==
    /\ pc = "handler"
    /\ kept' = IF keep THEN msg ELSE kept
    /\ pc' = "handler_raised"
    /\ UNCHANGED <<brokerVars, storeVars, session, consumer, running, position,
                   iterVars, exc, stopVars>>
    /\ UNCHANGED <<msg_error, apiCalled, stopInFlight>>
    /\ UNCHANGED <<classifierVars, apiVars>>

\* HandlerError without the except clause of line 257: the exception
\* leaves the loop through the finally clause.
HandlerError_Propagates ==
    /\ pc = "handler_raised"
    /\ exc' = TRUE
    /\ pc' = "finally"
    /\ UNCHANGED <<brokerVars, storeVars, session, consumer, running, position,
                   iterVars, stopVars>>
    /\ UNCHANGED <<msg_error, apiCalled, stopInFlight>>
    /\ UNCHANGED <<classifierVars, apiVars, kept>>

\* consume(), lines 257-260: the exception of the handler is logged and
\* counted; nothing is committed and the loop goes on.
HandlerError ==
    /\ pc = "handler_raised"
    /\ pc' = "loop"
    /\ UNCHANGED <<brokerVars, storeVars, session, consumer, running, position,
                   iterVars, exc, stopVars>>
    /\ UNCHANGED <<msg_error, apiCalled, stopInFlight>>
    /\ UNCHANGED <<classifierVars, apiVars, kept>>

LoopNext ==
    \/ Connect
    \/ SetRunning
    \/ LoopCheck
    \/ PollNone
    \/ \E code \in ErrorCodes : PollError(code)
    \/ PollMessage
    \/ PollClosed
    \/ Decode
    \/ SkipCommit
    \/ \E which \in {"own", "kept"} : InvokeCallback(which)
    \/ \E result \in {"True", "False"}, keep \in BOOLEAN :
          HandlerReturns(result, keep)
    \/ \E keep \in BOOLEAN : HandlerRaises(keep)
    \/ HandlerError
    \/ Finally
    \/ StopFlag
    \/ StopClose
    \/ Restart

\* consume() run with any handler, over the same broker and process as Spec.
LoopSpec == Init /\ [][LoopNext]_vars

\* --------------------------------------------------- get_patient_alerts

\* Texts of the 'limit' query parameter; "absent" when it is not given.
LimitArgs == {"absent", "abc", "-1", "0", "1", "2", "501"}

\* Texts of the 'since' query parameter; "absent" when it is not given.
SinceArgs == {"absent", "", "t1", "t2", "invalid-date"}

\* Reading timestamps of stored rows.
Timestamps == {1, 2}

\* The text is an integer literal: int(text) does not raise ValueError.
IsIntText(text) == text \in {"-1", "0", "1", "2", "501"}

\* int(text) of an integer literal.
int(text) ==
    IF text = "-1" THEN -1
    ELSE IF text = "0" THEN 0
    ELSE IF text = "1" THEN 1
    ELSE IF text = "2" THEN 2
    ELSE 501

\* request.args.get('limit', 50, type=int), line 149: the default when the
\* parameter is absent or is no integer.
args_get_limit(text) ==
    IF text = "absent" THEN 50
    ELSE IF IsIntText(text) THEN int(text)
    ELSE 50

\* datetime.fromisoformat(since), line 164: the timestamp, or 0 for a text
\* it rejects with ValueError.
fromisoformat(text) ==
    IF text = "t1" THEN 1
    ELSE IF text = "t2" THEN 2
    ELSE 0

min(a, b) == IF a <= b THEN a ELSE b

max(a, b) == IF a >= b THEN a ELSE b

\* The filter of lines 156-159 without the test of state_classified.
Matching_AnyState(patient_id, since) ==
    {i \in 1 .. Len(vitals_records) :
        /\ vitals_records[i].patient_id = patient_id
        /\ (since # "absent" /\ since # "") =>
               (vitals_records[i].reading_timestamp >= fromisoformat(since))}

\* Lines 156-165: positions of the rows the query selects.
Matching(patient_id, since) ==
    {i \in 1 .. Len(vitals_records) :
        /\ vitals_records[i].patient_id = patient_id
        /\ vitals_records[i].state_classified = "Critical"
        /\ (since # "absent" /\ since # "") =>
               (vitals_records[i].reading_timestamp >= fromisoformat(since))}

\* Lines 172-174: the orders in which order_by(reading_timestamp.desc())
\* may give the selected rows (rows of equal timestamp in any order), cut
\* at the limit.
QueryResults(selected, limit) ==
    LET n == Cardinality(selected)
        orders == {f \in [1 .. n -> selected] :
                     /\ \A j, k \in 1 .. n : (j # k) => (f[j] # f[k])
                     /\ \A j, k \in 1 .. n :
                          (j < k) => (vitals_records[f[j]].reading_timestamp
                                        >= vitals_records[f[k]].reading_timestamp)}
    IN  {[k \in 1 .. min(limit, n) |-> vitals_records[f[k]]] : f \in orders}

\* get_patient_alerts, lines 146-181: the responses to one request.
\* db_ok is FALSE when the query raises.
get_patient_alerts(patient_id, limit_arg, since, db_ok) ==
    LET limit == max(1, min(args_get_limit(limit_arg), 500)) IN
    IF since # "absent" /\ since # "" /\ fromisoformat(since) = 0
    THEN {[status |-> 400, error |-> "Invalid timestamp format"]}
    ELSE IF ~db_ok
    THEN {[status |-> 500, error |-> "Internal server error"]}
    ELSE {[status |-> 200, patient_id |-> patient_id, alert_type |-> "Critical",
           count |-> Len(records), alerts |-> records] :
             records \in QueryResults(Matching(patient_id, since), limit)}

\* The API thread serves a request for a patient's alerts.  The response
\* depends on the request and the store only, and the store is left as it
\* is, so one request is followed from each store.
ServeAlerts ==
    /\ request = NoRequest
    /\ \E patient_id \in Patients, limit_arg \in LimitArgs, since \in SinceArgs,
          db_ok \in BOOLEAN :
         /\ request' = [patient_id |-> patient_id, limit |-> limit_arg,
                        since |-> since]
         /\ response' \in get_patient_alerts(patient_id, limit_arg, since, db_ok)
    /\ UNCHANGED <<consumerVars, classifierVars>>

\* Tables of n rows that handler invocations have committed, one
\* transaction each.
StoredTables(n) ==
    {[i \in 1 .. n |-> Row(f[i][1], f[i][2], f[i][3], i - 1, i)] :
        f \in [1 .. n -> Patients \X {"Warning", "Critical"} \X Timestamps]}

\* The llm_summaries rows committed with the Critical rows of a table.
RECURSIVE SummariesOf(_)
SummariesOf(table) ==
    IF table = <<>> THEN <<>>
    ELSE LET last == table[Len(table)]
             before == SummariesOf(SubSeq(table, 1, Len(table) - 1))
         IN  IF last.state_classified = "Critical"
             THEN Append(before, [InitErrorSummary EXCEPT !.tx = last.tx])
             ELSE before

\* The API over a store that earlier runs of the consumer have filled; the
\* consumer process is not running.
ApiInit ==
    /\ log = [offset \in Offsets |-> "Normal"]
    /\ committed = 0
    /\ \E n \in 0 .. MaxRows : vitals_records \in StoredTables(n)
    /\ llm_summaries = SummariesOf(vitals_records)
    /\ ntx = Len(vitals_records)
    /\ ProcessInit
    /\ ClassifierIdle
    /\ ApiIdle

ApiNext == ServeAlerts

ApiSpec == ApiInit /\ [][ApiNext]_vars

\* ------------------------------------------------------------ typing

TypeOK ==
    /\ committed \in 0 .. NumMsgs
    /\ position \in 0 .. NumMsgs
    /\ msg \in Offsets \cup {NoMsg}
    /\ consumer \in {"none", "open", "closed"}
    /\ running \in BOOLEAN
    /\ success \in {"unset", "True", "False"}
    /\ commitCalled \in {"no", "loop", "handler", "kept"}
    /\ kept \in Offsets \cup {NoMsg}
    /\ commitResult \in {"none", "True", "False", "raise"}
    /\ dbCommit \in {"not_run", "ok", "failed"}
    /\ restarts \in 0 .. MaxRestarts
    /\ msg_error \in ErrorCodes \cup {"none"}
    /\ apiCalled \in BOOLEAN
    /\ stopInFlight \in BOOLEAN

\* --------------------------------------------------------------- claims

\* The rows of a table, as a set.
Rows(table) == {table[i] : i \in 1 .. Len(table)}

\* The vitals_records rows the current invocation's transaction committed.
OwnRecords ==
    {r \in Rows(vitals_records) : r.tx = ntx /\ r.kafka_offset = msg}

\* The llm_summaries rows the current invocation's transaction committed.
OwnSummaries == {r \in Rows(llm_summaries) : r.tx = ntx}

\* C1: the handler invokes the commit capability for a message only after
\* the storage transaction holding that message's record (and its triage
\* result when the event is Critical) has committed: whenever the handler is
\* about to invoke it or has invoked it, that transaction has succeeded and
\* its rows are in the tables.
C1_StoreThenAcknowledge ==
    (pc = "h_ack" \/ commitCalled = "handler") =>
        /\ dbCommit = "ok"
        /\ Cardinality(OwnRecords) = 1
        /\ (data = "Critical") => (Cardinality(OwnSummaries) = 1)

\* C1 witness: the handler has committed the offset of a Critical message
\* whose record and triage result are stored.
C1_Witness ==
    /\ commitCalled = "handler"
    /\ commitResult = "True"
    /\ data = "Critical"
    /\ committed = msg + 1
    /\ OwnSummaries # {}

\* C2: the committed offset never moves past a successfully decoded message
\* that has no persisted record.
C2_NoLoss ==
    \A o \in Offsets :
        (o < committed /\ _decode_message(log[o]) # None) =>
            \E r \in Rows(vitals_records) : r.kafka_offset = o

\* C3: a handler invocation that returned False has not invoked the commit
\* capability, and no offset commit was made for that message.
C3_NoCommitUnlessTrue ==
    (success = "False") => (commitCalled = "no")

\* C4 (I1): at the handler's return, it reports success if and only if this
\* attempt's record has been committed to the store.
C4_SuccessIffPersisted ==
    (success # "unset") => ((success = "True") <=> (dbCommit = "ok"))

\* C5 (I2): every triage result in the store was committed in the same
\* transaction as exactly one record, whose state is Critical; every
\* Critical record in the store has exactly one triage result of its
\* transaction; and the handler holds an enrichment result only while it
\* handles a Critical event.
C5_TriagePairedWithCritical ==
    /\ \A s \in Rows(llm_summaries) :
          /\ Cardinality({r \in Rows(vitals_records) : r.tx = s.tx}) = 1
          /\ \A r \in Rows(vitals_records) :
                (r.tx = s.tx) => (r.state_classified = "Critical")
    /\ \A r \in Rows(vitals_records) :
          (r.state_classified = "Critical") =>
              (Cardinality({s \in Rows(llm_summaries) : s.tx = r.tx}) = 1)
    /\ (llm_summary # NoSummary \/ service # "no_call") => (data = "Critical")
    /\ \A i \in 1 .. Len(session) :
          (session[i].table = "llm_summaries") => (data = "Critical")

\* C5 witness: the store holds a Critical record with its triage result and
\* a Warning record without one.
C5_Witness ==
    /\ \E r \in Rows(vitals_records) :
          /\ r.state_classified = "Critical"
          /\ \E s \in Rows(llm_summaries) : s.tx = r.tx
    /\ \E r \in Rows(vitals_records) :
          /\ r.state_classified = "Warning"
          /\ ~ \E s \in Rows(llm_summaries) : s.tx = r.tx

\* The message being processed is one _decode_message cannot decode.
Undecodable == msg # NoMsg /\ log[msg] \in UndecodablePayloads

C7_StorageFailureAborts ==
    /\ [](dbCommit = "failed" =>
            /\ pc \in {"h_except", "loop"}
            /\ commitCalled = "no"
            /\ (pc = "loop") => (success = "False" /\ session = <<>>)
            /\ (pc = "h_except") => (success = "unset"))
    /\ [][dbCommit' = "failed" =>
            (storeVars' = storeVars /\ committed' = committed)]_vars

\* C7 witness: the handler has returned False for a Critical event whose
\* storage commit failed.
C7_Witness ==
    /\ dbCommit = "failed"
    /\ data = "Critical"
    /\ llm_summary # NoSummary
    /\ pc = "loop"
    /\ success = "False"

C9_SuccessCommitsOffset ==
    (success = "True") =>
        /\ pc = "loop"
        /\ commitCalled = "handler"
        /\ commitResult \in {"True", "False"}
        /\ (commitResult = "True") => (committed = msg + 1)

\* C9 witness: the handler reported success for the last message of the
\* partition and its offset is committed.
C9_Witness ==
    /\ success = "True"
    /\ msg = NumMsgs - 1
    /\ commitResult = "True"
    /\ committed = NumMsgs

\* C10: whatever the reasoning service does, generate_critical_summary
\* returns a triage result to the handler: once the service has behaved in
\* any way during an invocation, the handler holds a summary with a risk
\* score in [0,1] and a triage level, and the row is staged or committed.
C10_EnrichmentTotal ==
    (service # "no_call") =>
        /\ llm_summary # NoSummary
        /\ llm_summary # Raised
        /\ llm_summary.table = "llm_summaries"
        /\ llm_summary.risk_score \in 0 .. 100
        /\ llm_summary.triage_level \in TriageLevels
        /\ (pc = "h_commit") => (session[Len(session)] = llm_summary)

\* C10 witness: the response carried no parsed object and the handler holds
\* the API-error fallback.
C10_Witness ==
    /\ service = "parsed_missing"
    /\ llm_summary = ApiErrorSummary("AttributeError")
    /\ pc = "h_commit"

\* ---------------------------------------------------------------- C11

\* The ways the reasoning service fails.
ServiceFailures == ServiceBehaviours \ {"valid_response"}

\* C11: an outage of the reasoning service never stalls or drops a
\* Critical event: when the handler has returned for a well-formed Critical
\* reading whose service call failed in any way and whose storage commit
\* succeeded, exactly one record and one summary of the message are
\* persisted in its transaction, the commit capability was invoked and the
\* handler returned True.
C11_OutageNeverDropsCritical ==
    (pc = "loop" /\ data = "Critical" /\ service \in ServiceFailures
        /\ dbCommit = "ok") =>
        /\ Cardinality(OwnRecords) = 1
        /\ Cardinality(OwnSummaries) = 1
        /\ commitCalled = "handler"
        /\ success = "True"

\* ---------------------------------------------------------------- C12

\* C12: when the call to the reasoning service, or the mapping of its
\* response, raises an exception other than a validation error, the
\* summary the handler holds has risk score 0.99, triage level Immediate
\* and model_version LLM_API_ERROR.
C12_ApiFailureFallback ==
    (service \in {"call_raises", "parsed_missing"}) =>
        /\ llm_summary.risk_score = 99
        /\ llm_summary.triage_level = "Immediate"
        /\ llm_summary.model_version = "LLM_API_ERROR"

\* C12 witness: the call raised and the API-error row is staged.
C12_Witness ==
    /\ service = "call_raises"
    /\ pc = "h_commit"
    /\ llm_summary.model_version = "LLM_API_ERROR"
    /\ session[Len(session)] = llm_summary

\* ---------------------------------------------------------------- C13

\* C13: when the client of the reasoning service cannot be set up, the
\* service is not called and the summary the handler holds has risk score
\* 1.0, triage level Immediate and model_version LLM_INIT_ERROR.
C13_InitFailureFallback ==
    (service = "client_init_fails") =>
        /\ ~apiCalled
        /\ llm_summary.risk_score = 100
        /\ llm_summary.triage_level = "Immediate"
        /\ llm_summary.model_version = "LLM_INIT_ERROR"

\* C13 witness: the set-up failed, no call was made and the row is staged.
C13_Witness ==
    /\ service = "client_init_fails"
    /\ ~apiCalled
    /\ pc = "h_commit"
    /\ session[Len(session)] = InitErrorSummary

\* ---------------------------------------------------------------- C14

\* The text of an exception occurs in a summary text.
Embeds(summary_text, e) ==
    \E i \in 1 .. Len(summary_text) - 1 :
        SubSeq(summary_text, i, i + 1) = str(e)

\* C14: when the response of the reasoning service fails schema
\* validation, the summary the handler holds has risk score 0.99, triage
\* level Immediate, model_version VALIDATION_ERROR and a summary text that
\* embeds the text of the validation error.
C14_ValidationFailureFallback ==
    (service = "validation_fails") =>
        /\ llm_summary.risk_score = 99
        /\ llm_summary.triage_level = "Immediate"
        /\ llm_summary.model_version = "VALIDATION_ERROR"
        /\ Embeds(llm_summary.summary_text, "ValidationError")

\* C14 witness: validation failed and the validation-error row, carrying
\* the error text, is staged.
C14_Witness ==
    /\ service = "validation_fails"
    /\ pc = "h_commit"
    /\ session[Len(session)] = llm_summary
    /\ Embeds(llm_summary.summary_text, "ValidationError")

\* ---------------------------------------------------------------- C15

\* The error codes of _handle_kafka_error, lines 152-173.
BenignTransientCodes ==
    {"_PARTITION_EOF", "_ALL_BROKERS_DOWN", "_TRANSPORT", "_TIMED_OUT",
     "UNKNOWN_TOPIC_OR_PART"}

\* C15: benign and transient broker errors never stop consumption.  After
\* such an error message the loop is at its head with no exception pending,
\* no handler was invoked and no commit was called for it; polling it
\* changes neither the running flag, the consumer, a committed offset nor
\* the store; and while the running flag is set the next step of the loop
\* is another poll, however many such errors came before.
C15_BenignErrorsContinue ==
    /\ [](msg_error \in BenignTransientCodes =>
            /\ pc = "loop"
            /\ ~exc
            /\ msg = NoMsg
            /\ commitCalled = "no"
            /\ success = "unset"
            /\ session = <<>>)
    /\ [][(pc = "poll" /\ msg_error' \in BenignTransientCodes) =>
            /\ running' = running
            /\ consumer' = consumer
            /\ position' = position
            /\ committed' = committed
            /\ storeVars' = storeVars]_vars
    /\ [][(msg_error \in BenignTransientCodes /\ running /\ pc' # pc
            /\ restarts' = restarts) => (pc' = "poll")]_vars

\* C15 witness: the end of the partition was reported after every message
\* had been committed, and the consumer is open and running at the loop head.
C15_Witness ==
    /\ msg_error = "_PARTITION_EOF"
    /\ pc = "loop"
    /\ running
    /\ consumer = "open"
    /\ committed = NumMsgs

\* ---------------------------------------------------------------- C16

\* consume() has ended in the Stopped state.
Stopped == pc = "returned" /\ ~running /\ consumer = "closed"

\* C16: a fatal broker error terminates the consumption loop.  Once it is
\* polled, control is in the finally clause or consume() has returned
\* without an exception, and until the process is restarted no message is
\* polled, decoded, handled or committed and the store does not change;
\* consume() then ends with the running flag cleared and the consumer
\* closed.
C16_FatalErrorTerminates ==
    /\ [](msg_error = "_FATAL" =>
            /\ pc \in {"finally", "returned"}
            /\ ~exc
            /\ msg = NoMsg
            /\ commitCalled = "no"
            /\ (pc = "returned" => Stopped))
    /\ [][(msg_error = "_FATAL" /\ restarts' = restarts) =>
            /\ msg_error' = "_FATAL"
            /\ pc' \in {"finally", "returned"}
            /\ position' = position
            /\ msg' = msg
            /\ data' = data
            /\ commitCalled' = commitCalled
            /\ committed' = committed
            /\ storeVars' = storeVars]_vars
    /\ ((msg_error = "_FATAL") ~> (Stopped \/ msg_error # "_FATAL"))

\* C16 witness: a fatal error was polled after a message had been handled
\* and consume() has returned with the consumer closed.
C16_Witness ==
    /\ msg_error = "_FATAL"
    /\ Stopped
    /\ committed > 0

\* ---------------------------------------------------------------- C17

\* After a stop() that was called during a handler invocation, the thread
\* of consume() finishes that invocation, leaves the loop at its next test
\* of the running flag and returns without an exception.
C17_LoopExitsNormally ==
    stopInFlight =>
        /\ pc \in HandlerPcs \cup {"loop", "finally", "returned"}
        /\ ~exc

\* C17: shutdown is cooperative.  A stop() called from another thread while
\* a handler invocation is running does not alter that invocation: its
\* offset commit ends as it can end without the stop (accepted or refused by
\* the broker, never an exception), a reading whose storage commit
\* succeeded is reported as handled, and consume() leaves the loop at the
\* next test of the running flag and returns normally.
C17_StopIsCooperative ==
    stopInFlight =>
        /\ C17_LoopExitsNormally
        /\ commitResult # "raise"
        /\ (pc = "loop" /\ dbCommit = "ok") => (success = "True")

\* ---------------------------------------------------------------- C18

\* The states of a well-formed event in scenarios A, B and C.
ScenarioStates == {"Normal", "Warning", "Critical"}

\* C18: scenarios A-C.  When the handler has returned for a well-formed
\* Normal, Warning or Critical event and neither the store nor the broker
\* failed it (no failed storage commit, no refused or raising offset
\* commit), its transaction holds exactly one record of the message, and
\* exactly one summary if the state is Critical and none otherwise, the
\* handler returned True, and the committed offset is the message's
\* offset plus one.
C18_ScenariosABC ==
    (pc = "loop" /\ data \in ScenarioStates /\ dbCommit # "failed"
        /\ commitResult \notin {"False", "raise"}) =>
        /\ dbCommit = "ok"
        /\ Cardinality(OwnRecords) = 1
        /\ \A r \in OwnRecords : r.state_classified = data
        /\ Cardinality(OwnSummaries) = (IF data = "Critical" THEN 1 ELSE 0)
        /\ success = "True"
        /\ commitCalled = "handler"
        /\ commitResult = "True"
        /\ committed = msg + 1

\* C18 witness: scenario C, a Critical event answered by the service, with
\* its record and its summary persisted and its offset committed.
C18_Witness ==
    /\ pc = "loop"
    /\ data = "Critical"
    /\ service = "valid_response"
    /\ success = "True"
    /\ Cardinality(OwnRecords) = 1
    /\ Cardinality(OwnSummaries) = 1
    /\ committed = msg + 1

\* ---------------------------------------------------------------- C19

\* The positions in vitals_records of the rows with a given offset.
RowsAt(offset) ==
    {i \in 1 .. Len(vitals_records) : vitals_records[i].kafka_offset = offset}

\* The message in hand has a record that an earlier transaction committed.
Redelivered ==
    /\ msg # NoMsg
    /\ \E i \in RowsAt(msg) :
           vitals_records[i].tx < (IF dbCommit = "ok" THEN ntx ELSE ntx + 1)

\* C19: redelivery is not deduplicated.  When a message that already has a
\* persisted record is delivered again, the store accepts its record a
\* second time (the storage commit can succeed at the moment the handler
\* runs it); once it has succeeded the table holds at least two rows with
\* the message's offset, one of them from this invocation, and the handler
\* returns True unless its offset commit raises; and an offset never has
\* more rows than the message has had deliveries, one per run of the
\* consumer.
C19_RedeliveryNotDeduplicated ==
    /\ (pc = "h_commit" /\ Redelivered) =>
            ENABLED (HandlerDbCommit /\ dbCommit' = "ok")
    /\ (dbCommit = "ok" /\ Redelivered) =>
            /\ Cardinality(OwnRecords) = 1
            /\ Cardinality(RowsAt(msg)) >= 2
            /\ (pc = "loop" /\ commitResult # "raise") => (success = "True")
    /\ \A offset \in Offsets : Cardinality(RowsAt(offset)) <= restarts + 1

\* C19 witness: after a restart the message at offset 0 was handled again;
\* the table holds two records with offset 0 and the handler returned True.
C19_Witness ==
    /\ restarts = 1
    /\ msg = 0
    /\ pc = "loop"
    /\ success = "True"
    /\ Cardinality(RowsAt(0)) = 2

\* ---------------------------------------------------------------- C20

Classified == 1 .. Len(results)

\* C22: every reading classified with a heart rate of at most 40 or at
\* least 150 is Critical, whatever its other vitals; 40 and 150 count.
C22_HeartRateCritical ==
    \A i \in Classified :
        (readings[i].heart_rate # NaN
            /\ (readings[i].heart_rate <= 400 \/ readings[i].heart_rate >= 1500))
        => (results[i] = "Critical")

\* C22 witness: a heart rate of exactly 40 with the other vitals normal was
\* classified Critical.
C22_Witness ==
    /\ call = "classify"
    /\ readings = <<VitalReading(400, 980, 366)>>
    /\ results = <<"Critical">>

\* C23: every reading classified with an oxygen saturation of at most 88 is
\* Critical, whatever its other vitals; 88 counts.
C23_Spo2Critical ==
    \A i \in Classified :
        (readings[i].spo2 # NaN /\ readings[i].spo2 <= 880)
        => (results[i] = "Critical")

\* C23 witness: a saturation of exactly 88 with the other vitals normal was
\* classified Critical.
C23_Witness ==
    /\ call = "classify"
    /\ readings = <<VitalReading(750, 880, 366)>>
    /\ results = <<"Critical">>

\* C24: every reading classified with a temperature of at most 35.0 or at
\* least 39.5 is Critical, whatever its other vitals; 35.0 and 39.5 count.
C24_TemperatureCritical ==
    \A i \in Classified :
        (readings[i].temperature # NaN
            /\ (readings[i].temperature <= 350
                  \/ readings[i].temperature >= 395))
        => (results[i] = "Critical")

\* C24 witness: a temperature of exactly 39.5 with the other vitals normal
\* was classified Critical.
C24_Witness ==
    /\ call = "classify"
    /\ readings = <<VitalReading(750, 980, 395)>>
    /\ results = <<"Critical">>

\* Every vital of the reading is a number inside its normal range, bounds
\* included.
InNormalRanges(reading) ==
    /\ reading.heart_rate # NaN
    /\ reading.heart_rate >= 600 /\ reading.heart_rate <= 1000
    /\ reading.spo2 # NaN
    /\ reading.spo2 >= 950 /\ reading.spo2 <= 1000
    /\ reading.temperature # NaN
    /\ reading.temperature >= 361 /\ reading.temperature <= 372

\* C25: every reading classified with all three vitals inside the normal
\* ranges, bounds included, and an outlier score of at least -0.1 (or no
\* score, the forest not being fitted) is Normal.
C25_NormalInsideRanges ==
    \A i \in Classified :
        (InNormalRanges(readings[i])
            /\ (is_fitted => decision_function(model, readings[i]) >= -10))
        => (results[i] = "Normal")

\* C25 witness: the reading 60 / 95 / 37.2, scored exactly -0.1 by a fitted
\* forest, was classified Normal.
C25_Witness ==
    /\ is_fitted
    /\ model = "bounds_on_threshold"
    /\ call = "classify"
    /\ readings = <<VitalReading(600, 950, 372)>>
    /\ results = <<"Normal">>

\* A critical rule holds of the reading.
MeetsCriticalRule(reading) ==
    \/ reading.heart_rate # NaN
         /\ (reading.heart_rate <= 400 \/ reading.heart_rate >= 1500)
    \/ reading.spo2 # NaN /\ reading.spo2 <= 880
    \/ reading.temperature # NaN
         /\ (reading.temperature <= 350 \/ reading.temperature >= 395)

\* C26: every reading classified that meets no critical rule and has a
\* vital outside its normal range is Warning, whatever the forest would
\* score it and whether or not the forest is fitted.
C26_WarningOutsideRanges ==
    \A i \in Classified :
        (~MeetsCriticalRule(readings[i]) /\ ~InNormalRanges(readings[i]))
        => (results[i] = "Warning")

\* C26 witness: a fitted forest that scores every reading an inlier, and a
\* reading whose heart rate alone is just above its range, classified
\* Warning.
C26_Witness ==
    /\ is_fitted
    /\ model = "inliers"
    /\ call = "classify"
    /\ readings = <<VitalReading(1001, 980, 366)>>
    /\ results = <<"Warning">>

\* C27: classify_batch maps classify over the list and keeps no state from
\* one element to the next.  The results never outnumber the readings,
\* result i is what classify answers for reading i alone, each step of the
\* batch adds one result after the ones it has and leaves the list alone,
\* and no call of classify or classify_batch changes the classifier.
C27_BatchIsElementwise ==
    /\ [](/\ Len(results) <= Len(readings)
          /\ \A i \in Classified : results[i] = classify(readings[i]))
    /\ [][(call = "classify_batch" /\ call' = call /\ results' # <<>>) =>
            /\ readings' = readings
            /\ Len(results') = Len(results) + 1
            /\ SubSeq(results', 1, Len(results)) = results]_vars
    /\ [][(call' # "none") => (is_fitted' = is_fitted /\ model' = model)]_vars

\* C27 witness: a batch of a Critical reading followed by a Normal one has
\* been classified in that order by a fitted classifier.
C27_Witness ==
    /\ is_fitted
    /\ call = "classify_batch"
    /\ readings = <<VitalReading(750, 880, 366), VitalReading(750, 980, 366)>>
    /\ results = <<"Critical", "Normal">>

\* ---------------------------------------------------------------- C21

\* C21: the handler never recomputes severity.  Whatever vitals the event
\* carries, the record the handler stages and the record it persists have
\* the state_classified tag of the event, and the handler goes through
\* enrichment exactly when that tag is Critical.
C21_SeverityIsOpaque ==
    /\ \A i \in 1 .. Len(session) :
           (session[i].table = "vitals_records")
               => (session[i].state_classified = data)
    /\ (dbCommit = "ok") => (\A r \in OwnRecords : r.state_classified = data)
    /\ (pc = "h_enrich") => (data = "Critical")
    /\ (pc \in {"h_commit", "h_ack"}) =>
           ((service # "no_call") <=> (data = "Critical"))

\* C21 witness: an event tagged Normal whose vitals the classifier calls
\* Critical was persisted as Normal, without enrichment.
C21_Witness ==
    /\ data = "Normal"
    /\ event_vitals = VitalReading(1500, 880, 395)
    /\ classify(event_vitals) = "Critical"
    /\ pc = "h_ack"
    /\ service = "no_call"
    /\ \E r \in OwnRecords : r.state_classified = "Normal"

\* ---------------------------------------------------------------- C28

\* The limit the request asks for, clamped to [1, 500].
ClampedLimit ==
    LET asked == args_get_limit(request.limit) IN
    IF asked < 1 THEN 1 ELSE IF asked > 500 THEN 500 ELSE asked

\* The persisted Critical rows of the patient the request names.
CriticalRowsOfPatient ==
    {r \in Rows(vitals_records) :
        r.patient_id = request.patient_id /\ r.state_classified = "Critical"}

\* C28: a successful alerts response holds only persisted records of the
\* patient asked for whose state is Critical, no record twice and no more
\* records than the limit clamped to [1, 500]; its count is the number of
\* alerts it holds; and a patient without a Critical record gets count 0
\* and an empty list.
C28_AlertsQuery ==
    (response.status = 200) =>
        /\ \A k \in 1 .. Len(response.alerts) :
               response.alerts[k] \in CriticalRowsOfPatient
        /\ \A j, k \in 1 .. Len(response.alerts) :
               (j # k) => (response.alerts[j] # response.alerts[k])
        /\ Len(response.alerts) <= ClampedLimit
        /\ response.count = Len(response.alerts)
        /\ (CriticalRowsOfPatient = {}) =>
               (response.count = 0 /\ response.alerts = <<>>)

\* C28 witness: a patient with two Critical records and one Warning record
\* asked with limit 0, which is clamped to 1, and given one Critical record.
C28_Witness ==
    /\ response.status = 200
    /\ request.limit = "0"
    /\ Cardinality(CriticalRowsOfPatient) = 2
    /\ \E r \in Rows(vitals_records) :
           r.patient_id = request.patient_id /\ r.state_classified = "Warning"
    /\ response.count = 1

\* The handler is at work on a malformed event, or has just returned from it.
HandlingMalformed ==
    /\ data \in MalformedEvents
    /\ pc \in HandlerPcs \cup {"loop"}

\* C30: an event with a missing or unparseable timestamp, or with patient_id,
\* a vitals field or state_classified missing, makes the handler return
\* False: it stages and persists no row, does not call the Triage
\* Enrichment service and does not invoke the commit callback, so the
\* tables and the committed offset stay as they were.
C30_MalformedEventAborts ==
    /\ [](HandlingMalformed =>
            /\ session = <<>>
            /\ dbCommit = "not_run"
            /\ service = "no_call"
            /\ ~apiCalled
            /\ commitCalled = "no"
            /\ commitResult = "none"
            /\ pc \in {"handler", "h_except", "loop"}
            /\ (pc = "loop" => success = "False"))
    /\ [][HandlingMalformed => UNCHANGED <<storeVars, committed>>]_vars

\* The handler has returned False from an event without state_classified,
\* the second message of the log; the first one is committed.
C30_Witness ==
    /\ pc = "loop"
    /\ data = "missing_state_classified"
    /\ success = "False"
    /\ committed = msg
    /\ msg = 1

\* The loop has polled the undecodable message at offset k in this session
\* and is done with it: commit_offset has returned or raised.
SkippedInSession(k) ==
    /\ consumer # "none"
    /\ log[k] \in UndecodablePayloads
    /\ k < position
    /\ (k = msg) => (pc \notin {"decode", "skip_commit"})

\* poll() hands the loop a message.
Delivery == pc = "poll" /\ pc' = "decode"

\* C29 as stated: a poison message the loop has skipped is not delivered
\* again after a restart, that is, when the process restarts the committed
\* offset is past every undecodable message the session has skipped.
C29_PoisonNeverRedelivered ==
    [][(restarts' = restarts + 1) =>
          \A k \in Offsets : SkippedInSession(k) => committed > k]_vars

\* C29: a poison message never blocks its partition.  Whatever becomes of
\* its offset commit, the consumer's position is past it and the next
\* message polled in the session is the one at the position, which goes to
\* the decoder; a skip whose commit did not raise is back at the head of the
\* loop.  A new session starts at the committed offset and no message below
\* it is ever delivered; the committed offset never goes back and is the
\* poison message's offset plus one once its commit is accepted.  So a
\* poison message whose commit was accepted is not delivered again after a
\* restart, while one whose commit was refused or raised is.
C29_PoisonDoesNotBlock ==
    /\ [](Undecodable => position = msg + 1)
    /\ []((Undecodable /\ commitCalled = "loop" /\ commitResult = "True") =>
            committed = msg + 1)
    /\ []((Undecodable /\ commitCalled = "loop" /\ commitResult # "raise") =>
            pc = "loop")
    /\ [][Delivery => (msg' = position /\ msg' >= committed
                          /\ position' = position + 1)]_vars
    /\ [][committed' >= committed]_vars
    /\ [][(pc = "consume" /\ pc' = "set_running") => position' = committed]_vars

\* After a restart the session resumed past a poison message at offset 0
\* whose commit was accepted, and has dispatched its follower to the
\* handler.
C29_Witness ==
    /\ restarts >= 1
    /\ log[0] \in UndecodablePayloads
    /\ committed = 1
    /\ msg = 1
    /\ pc = "handler"

\* C31: a handler that raises is a failure to the consume loop.  The
\* exception is caught in consume() (no exception is propagating while the
\* except clause runs, and that clause can always run); the clause commits
\* nothing, leaves the running flag and the consumer alone, and ends at the
\* head of the loop, from where a loop that is still running goes to the
\* next poll.
C31_RaisingHandlerIsFailure ==
    /\ []((pc = "handler_raised") =>
            (~exc /\ commitCalled # "loop" /\ ENABLED HandlerError))
    /\ [][(pc = "handler_raised" /\ pc' # pc /\ restarts' = restarts) =>
              /\ pc' = "loop"
              /\ UNCHANGED <<committed, running, consumer, exc, commitCalled,
                             success>>]_vars
    /\ [][(pc = "loop" /\ pc' # pc /\ restarts' = restarts) =>
              pc' = (IF running THEN "poll" ELSE "finally")]_vars

\* The handler raised on the first message without invoking its callback:
\* consume() is back at the head of the loop, still running, with nothing
\* committed and no exception propagating.
C31_Witness ==
    /\ pc = "loop"
    /\ msg = 0
    /\ data \in StateTags
    /\ success = "unset"
    /\ commitCalled = "no"
    /\ committed = 0
    /\ running
    /\ consumer = "open"
    /\ ~exc

\* C33: the commit callback handed to the handler is bound to the message
\* being dispatched.  Invoked during its own invocation it commits that
\* message (the committed offset becomes the message's offset plus one when
\* the broker accepts); invoked after a later message has been polled it
\* still commits the message it was made for and not the one in hand; a
\* refused or raising commit leaves the committed offset as it was.
C33_CallbackBoundToMessage ==
    /\ [][(commitCalled = "no" /\ commitCalled' = "handler") =>
              committed' = (IF commitResult' = "True" THEN msg + 1
                            ELSE committed)]_vars
    /\ [][(commitCalled = "no" /\ commitCalled' = "kept") =>
              committed' = (IF commitResult' = "True" THEN kept + 1
                            ELSE committed)]_vars

\* The handler of the message at offset 1 has invoked the callback kept
\* from the message at offset 0: the committed offset is 1.
C33_Witness ==
    /\ pc = "handler"
    /\ msg = 1
    /\ kept = 0
    /\ commitCalled = "kept"
    /\ commitResult = "True"
    /\ committed = 1

\* Positions of consume() inside its while loop.
LoopPcs == {"loop", "poll", "decode", "skip_commit"} \cup HandlerPcs

\* consume() has ended, by a return or by an exception that left the loop.
Exited == pc \in {"returned", "raised"}

TriageInRange(row) ==
    /\ row.risk_score \in 0 .. 100
    /\ row.triage_level \in TriageLevels

\* C34: every triage result the handler persists, whether the reasoning
\* service or a fallback produced it, has risk_score in [0,1] and
\* triage_level in {Immediate, Urgent, Standard}: it holds of the rows of
\* llm_summaries, of the summaries staged in the session, and of the row
\* made from any output of the service that validates against
\* ClinicianTriageSchema, which keeps the output's score and level.
C34_TriageResultInRange ==
    /\ \A s \in Rows(llm_summaries) : TriageInRange(s)
    /\ \A i \in 1 .. Len(session) :
          (session[i].table = "llm_summaries") => TriageInRange(session[i])
    /\ ClinicianTriageSchema(ParsedResponse("valid_response"))
    /\ \A raw \in ModelOutputs :
          ClinicianTriageSchema(raw) =>
             /\ TriageInRange(ModelSummary(raw))
             /\ ModelSummary(raw).risk_score = raw.risk_score
             /\ ModelSummary(raw).triage_level = raw.triage_level

\* A summary of the reasoning service and a fallback summary are both
\* persisted.
C34_Witness ==
    /\ \E s \in Rows(llm_summaries) : s.model_version = "gemini-2.5-flash"
    /\ \E s \in Rows(llm_summaries) : s.model_version = "LLM_INIT_ERROR"

\* The SeverityState enumeration.
SeverityStates == {"Normal", "Warning", "Critical"}

\* C35: every persisted record has a state_classified in {Normal, Warning,
\* Critical}.
C35_RecordStateInEnum ==
    \A r \in Rows(vitals_records) : r.state_classified \in SeverityStates

\* C36: a stop() is never lost.  Once a call of stop() has completed,
\* consume() is leaving its loop or bound to: inside the loop the running
\* flag is cleared, or the consumer is closed, so that the next test of the
\* flag or the next poll ends the loop.
C36_StopNeverLost ==
    (stopPc = "done" /\ pc \in LoopPcs) => (~running \/ consumer = "closed")

\* C37: a failed handler invocation leaves nothing staged.  The session is
\* empty whenever the handler is entered and whenever it has returned, with
\* either result; so each successful storage commit adds exactly the record
\* of the message in hand, and its summary if the event is Critical, and no
\* row staged by an earlier invocation.
C37_FailureLeavesNothingStaged ==
    /\ []((pc \in {"handler", "loop", "poll", "decode", "skip_commit"}) =>
            session = <<>>)
    /\ [][(dbCommit # "ok" /\ dbCommit' = "ok") =>
              /\ Len(vitals_records') = Len(vitals_records) + 1
              /\ SubSeq(vitals_records', 1, Len(vitals_records)) = vitals_records
              /\ vitals_records'[Len(vitals_records')].kafka_offset = msg
              /\ vitals_records'[Len(vitals_records')].state_classified = data
              /\ Len(llm_summaries') =
                    Len(llm_summaries) + (IF data = "Critical" THEN 1 ELSE 0)
              /\ SubSeq(llm_summaries', 1, Len(llm_summaries)) = llm_summaries
              /\ (data = "Critical") =>
                    (llm_summaries'[Len(llm_summaries')] =
                        [llm_summary EXCEPT !.tx = ntx'])]_vars

\* The storage commit of the Critical event at offset 0 failed with its
\* record and its summary staged; the next invocation has persisted the
\* record of offset 1 and nothing else.
C37_Witness ==
    /\ restarts = 0
    /\ log[0] = "Critical"
    /\ log[1] = "Normal"
    /\ msg = 1
    /\ pc = "loop"
    /\ success = "True"
    /\ Len(vitals_records) = 1
    /\ vitals_records[1].kafka_offset = 1
    /\ llm_summaries = <<>>

\* C38: within a consumer session the committed offset never decreases,
\* whatever the session polls, skips, handles or fails to commit: a commit
\* the broker accepts moves it to the message's offset plus one, which is
\* above what it was, and every other step leaves it where it is.  (A
\* restart starts a new session and does not touch it either.)
C38_CommittedNeverDecreases ==
    /\ [][committed' >= committed]_vars
    /\ [][committed' # committed =>
              /\ msg # NoMsg
              /\ committed' = msg + 1
              /\ commitResult' = "True"
              /\ restarts' = restarts]_vars

\* Both messages of one session are committed, the first by the loop after
\* a decode failure, the second by the handler.
C38_Witness ==
    /\ restarts = 0
    /\ log[0] \in UndecodablePayloads
    /\ msg = 1
    /\ commitCalled = "handler"
    /\ commitResult = "True"
    /\ committed = 2

\* C39: a broker-reported error ends the consume loop if and only if its
\* code is the fatal code.  _handle_kafka_error answers False for _FATAL
\* and True for every other code, named or not; the poll of an error
\* message goes to the finally clause for _FATAL and back to the head of
\* the loop for any other code, without a message in hand, without a
\* handler invocation or a commit, and without touching the running flag,
\* the consumer, the committed offset or the store.
C39_OnlyFatalTerminates ==
    /\ [](\A code \in ErrorCodes :
            _handle_kafka_error(code) <=> (code # "_FATAL"))
    /\ []((msg_error \notin {"none", "_FATAL"}) =>
            /\ pc = "loop"
            /\ ~exc
            /\ msg = NoMsg
            /\ data = "unset"
            /\ commitCalled = "no"
            /\ success = "unset")
    /\ [][(pc = "poll" /\ msg_error' # "none") =>
              /\ (pc' = "finally") <=> (msg_error' = "_FATAL")
              /\ (pc' = "loop") <=> (msg_error' # "_FATAL")
              /\ UNCHANGED <<running, consumer, position, committed, storeVars,
                             session, exc>>]_vars
    /\ [][(msg_error \notin {"none", "_FATAL"} /\ running /\ pc' # pc
              /\ restarts' = restarts) => (pc' = "poll")]_vars

\* An error with a code the taxonomy does not name was polled after the
\* first message had been committed; the consumer is open and running at
\* the head of the loop.
C39_Witness ==
    /\ msg_error = "OTHER"
    /\ pc = "loop"
    /\ running
    /\ consumer = "open"
    /\ committed = 1
    /\ ~exc

\* What the threshold rules alone say of a reading.
RuleState(reading) ==
    IF MeetsCriticalRule(reading) THEN "Critical"
    ELSE IF ~InNormalRanges(reading) THEN "Warning"
    ELSE "Normal"

\* C40: classify answers Critical only if a critical threshold rule holds
\* of the reading.  The outlier scorer never changes a Critical or a
\* Warning of the rules, can turn a reading the rules call Normal into
\* Warning and into nothing else, and does so only when the forest is
\* fitted and the score is below -0.1; an unfitted classifier answers
\* Normal for every reading inside the three normal ranges.
C40_ScorerOnlyRaisesNormal ==
    \A i \in Classified :
        LET reading == readings[i] IN
        /\ (results[i] = "Critical") => MeetsCriticalRule(reading)
        /\ (RuleState(reading) # "Normal") => (results[i] = RuleState(reading))
        /\ (RuleState(reading) = "Normal") =>
              /\ results[i] \in {"Normal", "Warning"}
              /\ (results[i] = "Warning") =>
                    (is_fitted /\ decision_function(model, reading) < -10)
        /\ (~is_fitted /\ InNormalRanges(reading)) => (results[i] = "Normal")

\* A forest that scores the reading 60 / 88 / 36.6 an outlier, and the
\* reading classified Critical by the rule on its oxygen saturation.
C40_Witness ==
    /\ is_fitted
    /\ model = "bounds_outliers"
    /\ call = "classify"
    /\ readings = <<VitalReading(600, 880, 366)>>
    /\ decision_function(model, readings[1]) < -10
    /\ results = <<"Critical">>

====
